---- MODULE Spec2Model ----
(***************************************************************************)
(* istanbul-lib-report, lib/tree.js: the Tree / Node / Visitor traversal   *)
(* protocol.  A concrete Tree (built by a Node/Tree subtype) is visited    *)
(* depth-first by a Visitor, a CompositeVisitor or a raw partial object.   *)
(* The JavaScript call stack of the recursive Node.prototype.visit is kept *)
(* explicitly in `stack`; an exception unwinds it in the step that raises. *)
(***************************************************************************)
EXTENDS Integers, Sequences, FiniteSets, TLC

\* ---------------------------------------------------------------- bounds
MaxNodes == 3       \* the largest tree has this many nodes
MaxMembers == 2     \* the longest array handed to CompositeVisitor
MaxFiles == 3       \* the most files in a coverage-data mapping

VARIABLES
    size,      \* number of nodes of the tree; the nodes are 1..size, the root is 1
    children,  \* children[n]: the array the concrete getChildren() of n returns
    summary,   \* summary[n]: what the concrete isSummary() of n returns
    parent,    \* parent[n]: what the concrete getParent() of n returns
    missing,   \* the abstract method the concrete subtype did not override
    broken,    \* the nodes whose subtype lacks `missing` (a Node accessor)
    given,     \* the parameter of the CompositeVisitor constructor, while it is held
    passed,    \* the visitor object the caller built and hands to the call
    earlier,   \* what the caller saw of its previous Tree.visit call, if any
    coverage,  \* the coverage-data argument a summarizer was called with
    made,      \* the tree a summarizer returned
    context,   \* the reporting context createContext returned
    visitor,   \* the `visitor` parameter of the running call (line 199 rewraps it)
    state,     \* the `state` parameter of the running call
    op,        \* the method the caller called
    pc,        \* where the caller's call stands
    stack,     \* activations of Node.prototype.visit, innermost last
    vcalls,    \* visitor methods the traversal invoked, in order
    dcalls,    \* delegate callbacks that were invoked, in order
    self,      \* the node the called method was called on (NoNode: none)
    err,       \* the exception that reached the caller
    ret        \* the value the caller's call returned

vars == <<size, children, summary, parent, missing, broken, given, passed, earlier,
          coverage, made, context, visitor, state, op, self, pc, stack, vcalls, dcalls, err, ret>>

\* ------------------------------------------------------------ vocabulary
\* the five callback names, in the order of line 53
Callbacks == <<"onStart", "onSummary", "onSummaryEnd", "onDetail", "onEnd">>
CB == {Callbacks[i] : i \in 1..Len(Callbacks)}

\* what a slot of a delegate object can hold: nothing, a value that is not a
\* function, a function that returns, a function that throws
SlotKinds == {"absent", "nonfn", "fn", "throws"}

NodeAccessors == {"getQualifiedName", "getRelativeName", "getParent",
                  "getChildren", "isSummary", "getCoverageSummary",
                  "getFileCoverage"}

NoNode == 0                 \* null / undefined where a node is expected
States == {"s1", "s2"}      \* the opaque `state` values callers pass
NoState == "undefined"

NoError == [kind |-> "none", method |-> "", member |-> 0, node |-> NoNode]
NoDelegate == [f \in CB |-> "absent"]

\* `throw new Error('<m> must be overridden')`
Unimplemented(m) ==
    [kind |-> "unimplemented", method |-> m, member |-> 0, node |-> NoNode]

\* the error object a throwing delegate callback of member m raises
CallbackError(m, f, n) ==
    [kind |-> "callback", method |-> f, member |-> m, node |-> n]

\* calling a property that is not a function
TypeError(f) ==
    [kind |-> "TypeError", method |-> f, member |-> 0, node |-> NoNode]


\* ------------------------------------------------------ visitor objects
\* a plain object the caller wrote: its own slots are the callbacks
PlainObject(d) == [kind |-> "Object", delegate |-> d, visitors |-> <<>>]

\* function Visitor(delegate) { this.delegate = delegate; }
Visitor(delegate) == [kind |-> "Visitor", delegate |-> delegate, visitors |-> <<>>]

\* `v instanceof Visitor`; CompositeVisitor inherits from Visitor (line 51)
InstanceofVisitor(v) == v.kind \in {"Visitor", "CompositeVisitor"}

\* mutant: nothing is wrapped, every object is taken as it comes
Wrap_Never(v) == v

\* lines 44-47, and Tree.visit's lines 198-200: wrap what is not a Visitor
Wrap(v) == IF InstanceofVisitor(v) THEN v ELSE Visitor(v.delegate)

\* lines 40-42: a value that is not an array becomes a one-element array
Normalize(arg) == IF arg.isArray THEN arg.value ELSE <<arg.value>>

\* function CompositeVisitor(visitors), lines 39-49 (this.delegate stays unset)
CompositeVisitor(arg) ==
    LET list == Normalize(arg)
    IN [kind |-> "CompositeVisitor", delegate |-> NoDelegate,
        visitors |-> [i \in 1..Len(list) |-> Wrap(list[i])]]

\* ------------------------------------------------------ callback dispatch
Truthy(slot) == slot # "absent"
TypeofFunction(slot) == slot \in {"fn", "throws"}

\* mutant: the delegate callback is called with the node alone
DelegateCall_NoState(m, f, n, st) ==
    [member |-> m, cb |-> f, node |-> n, state |-> NoState]

\* the invocation of callback f of member m's delegate with (node, state)
DelegateCall(m, f, n, st) == [member |-> m, cb |-> f, node |-> n, state |-> st]
VisitorCall(f, n, st) == [cb |-> f, node |-> n, state |-> st]

Nothing == [called |-> TRUE, events |-> <<>>, err |-> NoError]

\* mutant: the wrapper catches what the delegate callback throws
CallDelegate_Catches(d, m, f, n, st) ==
    [called |-> TRUE, events |-> <<DelegateCall(m, f, n, st)>>, err |-> NoError]

\* what a delegate callback hands back when it returns: the callbacks tried
\* answer false under one state and true under the other
Returns(st) == st # "s1"

\* this.delegate[f].call(this.delegate, node, state), line 34: the callback of
\* member m runs, and raises when it is a throwing one.  Line 34 is an
\* expression statement, as are lines 57, 157-165 and 201-203: what the
\* callback returned goes nowhere, no caller reads `returned`.
CallDelegate(d, m, f, n, st) ==
    [called |-> TRUE,
     events |-> <<DelegateCall(m, f, n, st)>>,
     err |-> IF d[f] = "throws" THEN CallbackError(m, f, n) ELSE NoError,
     returned |-> Returns(st)]

\* mutant: line 33 without its typeof test, so any truthy slot is called
VisitorOn_NoTypeof(d, m, f, n, st) ==
    IF Truthy(d[f])
    THEN IF TypeofFunction(d[f])
         THEN [called |-> TRUE, events |-> <<DelegateCall(m, f, n, st)>>,
               err |-> IF d[f] = "throws" THEN CallbackError(m, f, n) ELSE NoError]
         ELSE [called |-> TRUE, events |-> <<>>, err |-> TypeError(f)]
    ELSE Nothing

\* Visitor.prototype[f], lines 32-36, for the visitor that is member m
VisitorOn(d, m, f, n, st) ==
    IF Truthy(d[f]) /\ TypeofFunction(d[f])
    THEN CallDelegate(d, m, f, n, st)
    ELSE Nothing

\* mutant: only the first member is told that a traversal starts
MemberOn_StartFirstOnly(vs, i, f, n, st) ==
    IF f = "onStart" /\ i > 1 THEN Nothing
    ELSE VisitorOn(vs[i].delegate, i, f, n, st)

\* v[fn].apply(v, args), line 57, for member i: the method of a Visitor, or
\* whatever the property holds if the member is no Visitor
MemberOn(vs, i, f, n, st) ==
    IF InstanceofVisitor(vs[i])
    THEN VisitorOn(vs[i].delegate, i, f, n, st)
    ELSE IF TypeofFunction(vs[i].delegate[f])
         THEN CallDelegate(vs[i].delegate, i, f, n, st)
         ELSE [called |-> FALSE, events |-> <<>>, err |-> TypeError(f)]

\* CompositeVisitor.prototype[f], lines 55-59: this.visitors.forEach from
\* member i on; an exception ends the loop
RECURSIVE CompositeOn(_, _, _, _, _)

\* mutant: the members are called from the last to the first
CompositeOn_Reversed(vs, i, f, n, st) ==
    IF i > Len(vs) THEN Nothing
    ELSE LET rest == CompositeOn(vs, i + 1, f, n, st)
         IN IF rest.err # NoError THEN rest
            ELSE LET r == MemberOn(vs, i, f, n, st)
                 IN [called |-> TRUE, events |-> rest.events \o r.events,
                     err |-> r.err]

CompositeOn(vs, i, f, n, st) ==
    IF i > Len(vs) THEN Nothing
    ELSE LET r == MemberOn(vs, i, f, n, st)
         IN IF r.err # NoError THEN r
            ELSE LET rest == CompositeOn(vs, i + 1, f, n, st)
                 IN [called |-> TRUE, events |-> r.events \o rest.events,
                     err |-> rest.err]

\* mutant: a visitor that remembers it was started, and takes onStart on its
\* first traversal only
Invoke_StartsOnce(v, f, n, st) ==
    IF f = "onStart" /\ earlier # <<>>
    THEN Nothing
    ELSE CASE v.kind = "CompositeVisitor" -> CompositeOn(v.visitors, 1, f, n, st)
           [] v.kind = "Visitor" -> VisitorOn(v.delegate, 1, f, n, st)
           [] OTHER -> IF TypeofFunction(v.delegate[f])
                       THEN CallDelegate(v.delegate, 1, f, n, st)
                       ELSE [called |-> FALSE, events |-> <<>>, err |-> TypeError(f)]

\* the call expression visitor[f](node, state) of lines 157-165 and 201-203;
\* on a plain object the property may be no function at all
Invoke(v, f, n, st) ==
    CASE v.kind = "CompositeVisitor" -> CompositeOn(v.visitors, 1, f, n, st)
      [] v.kind = "Visitor" -> VisitorOn(v.delegate, 1, f, n, st)
      [] OTHER -> IF TypeofFunction(v.delegate[f])
                  THEN CallDelegate(v.delegate, 1, f, n, st)
                  ELSE [called |-> FALSE, events |-> <<>>, err |-> TypeError(f)]

\* ------------------------------------------------------------ the tree
Root == 1                   \* the node the concrete getRoot() returns

\* k and its ancestors under the parent map p
RECURSIVE Ancestors(_, _)
Ancestors(p, k) == IF k = Root THEN {Root} ELSE {k} \cup Ancestors(p, p[k])

\* the ordered trees of n nodes, each once: nodes are numbered in depth-first
\* preorder, so a node's parent is the previous node or one of its ancestors
ParentMaps(n) ==
    {p \in [2..n -> 1..n] :
        \A i \in 2..n : p[i] < i /\ (i > 2 => p[i] \in Ancestors(p, i - 1))}

\* the children array of k: its children in sibling order
ChildrenOf(p, n, k) ==
    SelectSeq([i \in 1..n |-> i], LAMBDA x : x > Root /\ p[x] = k)

\* mutant: the base methods return undefined instead of throwing
Implemented_Always(m, n) == TRUE

\* is abstract method m implemented for node n (for the tree, when m is getRoot)
Implemented(m, n) == ~(missing = m /\ (m = "getRoot" \/ n \in broken))

NoVisitor == [kind |-> "none", delegate |-> NoDelegate, visitors |-> <<>>]
NoArgument == [isArray |-> FALSE, value |-> NoVisitor]
NoRet == "undefined"

\* the subtree of n: n and all its descendants
RECURSIVE Subtree(_)
Subtree(n) ==
    {n} \cup UNION {Subtree(children[n][i]) : i \in 1..Len(children[n])}

\* ================================================ coverage summaries
\* The summarizers, the context and the watermark table are required by
\* index.js (lines 6-8) from lib/summarizer, lib/context and lib/watermarks;
\* what follows models them from their specified behaviour.
Metrics == {"statements", "branches", "functions", "lines"}

\* pct: covered/total*100, kept exactly as a fraction, or the sentinel
\* "not applicable" when there is nothing to cover
Pct(total, covered) ==
    IF total > 0
    THEN [known |-> TRUE, num |-> covered * 100, den |-> total]
    ELSE [known |-> FALSE, num |-> 0, den |-> 1]

Metric(total, covered, skipped) ==
    [total |-> total, covered |-> covered, skipped |-> skipped,
     pct |-> Pct(total, covered)]

\* the empty (zero) summary
EmptySummary == [m \in Metrics |-> Metric(0, 0, 0)]

\* merging two summaries gives a new one: the counts add up, pct is derived
Merge(a, b) ==
    [m \in Metrics |->
        Metric(a[m].total + b[m].total, a[m].covered + b[m].covered,
               a[m].skipped + b[m].skipped)]

\* the summary of one file's raw record
ToSummary(record) ==
    [m \in Metrics |-> Metric(record[m].total, record[m].covered, record[m].skipped)]

Counts(total, covered, skipped) ==
    [total |-> total, covered |-> covered, skipped |-> skipped]

\* the raw per-file records tried: one partly covered, one with no branches
\* and nothing covered
FileRecords ==
    { [m \in Metrics |->
          CASE m = "statements" -> Counts(4, 3, 0)
            [] m = "branches" -> Counts(2, 1, 1)
            [] m = "functions" -> Counts(1, 1, 0)
            [] OTHER -> Counts(3, 2, 0)],
      [m \in Metrics |->
          CASE m = "branches" -> Counts(0, 0, 0)
            [] OTHER -> Counts(2, 0, 0)] }

\* file paths as their segments: a file at the top, two files of one
\* directory, a file one directory further down, and a file behind a chain of
\* directories that hold nothing else
FilePaths ==
    { <<"a.js">>, <<"b", "c.js">>, <<"b", "d.js">>, <<"b", "e", "f.js">>,
      <<"g", "h", "i.js">> }

\* the empty key, which has no segment
EmptyKey == <<>>

Entry(path, record) == [path |-> path, record |-> record]

\* the coverage-data mappings: up to MaxFiles distinct keys in iteration order
CoverageMaps ==
    {cm \in UNION {[1..k -> {Entry(p, r) : p \in FilePaths \cup {EmptyKey},
                                           r \in FileRecords}] : k \in 0..MaxFiles} :
        \A i, j \in DOMAIN cm : cm[i].path = cm[j].path => i = j}

\* what a caller may hand to a summarizer: a mapping, or nothing
NoCoverage == [present |-> FALSE, files |-> <<>>]
CoverageArgs == {NoCoverage} \cup {[present |-> TRUE, files |-> cm] : cm \in CoverageMaps}

\* a mapping is there and every key has at least one segment
ValidCoverage(arg) ==
    arg.present /\ \A i \in DOMAIN arg.files : arg.files[i].path # EmptyKey

InvalidCoverageInput ==
    [kind |-> "InvalidCoverageInput", method |-> "none", member |-> 0, node |-> NoNode]

\* ---------------------------------------------------------- report trees
Front(s) == SubSeq(s, 1, Len(s) - 1)
Last(s) == s[Len(s)]

RootNode == [kind |-> "root", path |-> <<>>]
DirNode(dir) == [kind |-> "dir", path |-> dir]
FileNode(path) == [kind |-> "file", path |-> path]
NoParent == [kind |-> "none", path |-> <<>>]

\* a tree of its root alone
RootOnly ==
    [nodes |-> {RootNode},
     parent |-> (RootNode :> NoParent),
     children |-> (RootNode :> <<>>),
     rel |-> (RootNode :> <<>>),
     file |-> <<>>]

NoTree == [RootOnly EXCEPT !.nodes = {}]

\* summary node p gets the new child c, whose relative name is r
AddChild(t, p, c, r) ==
    [t EXCEPT !.nodes = @ \cup {c},
              !.parent = (c :> p) @@ @,
              !.children = (c :> <<>>) @@ [@ EXCEPT ![p] = Append(@, c)],
              !.rel = (c :> r) @@ @]

\* mutant: a summary node keeps one file only, the first it was given
AddFile_KeepsFirst(t, p, e, r) ==
    IF \E j \in DOMAIN t.children[p] : t.children[p][j].kind = "file"
    THEN t
    ELSE [AddChild(t, p, FileNode(e.path), r)
             EXCEPT !.file = (FileNode(e.path) :> e.record) @@ @]

\* summary node p gets the detail node of input entry e
AddFile(t, p, e, r) ==
    [AddChild(t, p, FileNode(e.path), r)
        EXCEPT !.file = (FileNode(e.path) :> e.record) @@ @]

\* ---- flat
\* mutant: a file is named by its last segment
FlatName_LastSegment(path) == <<Last(path)>>

\* the relative name of a file in the flat tree: its full path
FlatName(path) == path

\* flat: every file directly beneath the root, in iteration order
RECURSIVE FlatFrom(_, _, _)
FlatFrom(t, cm, i) ==
    IF i > Len(cm) THEN t
    ELSE FlatFrom(AddFile(t, RootNode, cm[i], FlatName(cm[i].path)), cm, i + 1)

\* ---- pkg
\* mutant: a file belongs to the top-level directory above it
ContainingDirectory_TopLevel(path) ==
    IF Len(path) > 1 THEN <<path[1]>> ELSE <<>>

\* the directory a file is directly inside
ContainingDirectory(path) == Front(path)

\* pkg: one package node per containing directory, each beneath the root in
\* the order the directories first occur; a file goes into its package
RECURSIVE PackagesFrom(_, _, _)
PackagesFrom(t, cm, i) ==
    IF i > Len(cm) THEN t
    ELSE LET dir == ContainingDirectory(cm[i].path)
             pkg == DirNode(dir)
             t1 == IF pkg \in t.nodes THEN t ELSE AddChild(t, RootNode, pkg, dir)
         IN PackagesFrom(AddFile(t1, pkg, cm[i], <<Last(cm[i].path)>>), cm, i + 1)

\* ---- nested
\* the summary node of a directory prefix; the empty prefix is the root
NodeFor(dir) == IF dir = <<>> THEN RootNode ELSE DirNode(dir)

\* the summary node of dir, created with those of its prefixes if not there yet
RECURSIVE EnsureDir(_, _)
EnsureDir(t, dir) ==
    IF NodeFor(dir) \in t.nodes THEN t
    ELSE AddChild(EnsureDir(t, Front(dir)), NodeFor(Front(dir)), DirNode(dir),
                  <<Last(dir)>>)

\* the full hierarchy: a file goes beneath the node of the directory it is in
RECURSIVE HierarchyFrom(_, _, _)
HierarchyFrom(t, cm, i) ==
    IF i > Len(cm) THEN t
    ELSE LET dir == Front(cm[i].path)
         IN HierarchyFrom(AddFile(EnsureDir(t, dir), NodeFor(dir), cm[i],
                                  <<Last(cm[i].path)>>), cm, i + 1)

\* mutant: a directory is taken for a link of a chain as soon as its first
\* child is a directory
Chains_FirstChild(t) ==
    {n \in t.nodes : /\ n.kind = "dir"
                     /\ Len(t.children[n]) >= 1
                     /\ t.children[n][1].kind = "dir"}

\* the links of single-child prefix chains: directories below the root whose
\* only child is a directory
Chains(t) ==
    {n \in t.nodes : /\ n.kind = "dir"
                     /\ Len(t.children[n]) = 1
                     /\ t.children[n][1].kind = "dir"}

\* link n goes: its first child takes its place and its name as a prefix
Splice(t, n) ==
    LET c == t.children[n][1]
        p == t.parent[n]
        rest == t.nodes \ {n}
    IN [nodes |-> rest,
        parent |-> [x \in rest |-> IF x = c THEN p ELSE t.parent[x]],
        children |->
            [x \in rest |->
                IF x = p
                THEN [j \in DOMAIN t.children[p] |->
                         IF t.children[p][j] = n THEN c ELSE t.children[p][j]]
                ELSE t.children[x]],
        rel |-> [x \in rest |-> IF x = c THEN t.rel[n] \o t.rel[c] ELSE t.rel[x]],
        file |-> t.file]

\* collapse the chains, one link at a time, until none is left
RECURSIVE Collapse(_)
Collapse(t) ==
    IF Chains(t) = {} THEN t
    ELSE Collapse(Splice(t, CHOOSE n \in Chains(t) : TRUE))

Summarizers == {"flat", "nested", "pkg"}

\* summarizers[kind](coverage) for a valid mapping
Summarize(kind, cm) ==
    CASE kind = "flat" -> FlatFrom(RootOnly, cm, 1)
      [] kind = "nested" -> Collapse(HierarchyFrom(RootOnly, cm, 1))
      [] OTHER -> PackagesFrom(RootOnly, cm, 1)

\* ---- the coverage of a node of a report tree
IsSummaryNode(n) == n.kind # "file"

\* getCoverageSummary: a detail node shows its file's record, a summary node
\* the merge of its children's summaries (of its file children only when
\* asked for files only)
RECURSIVE GetCoverageSummary(_, _, _)
GetCoverageSummary(t, n, filesOnly) ==
    IF ~IsSummaryNode(n) THEN ToSummary(t.file[n])
    ELSE LET RECURSIVE Sum(_)
             Sum(i) ==
                IF i > Len(t.children[n]) THEN EmptySummary
                ELSE IF filesOnly /\ IsSummaryNode(t.children[n][i]) THEN Sum(i + 1)
                ELSE Merge(GetCoverageSummary(t, t.children[n][i], FALSE), Sum(i + 1))
         IN Sum(1)

\* ---------------------------------------------------------- watermarks
\* the library's thresholds, [low, high] per metric
DefaultWatermarks == [m \in Metrics |-> <<50, 80>>]

\* the thresholds a caller overrides a metric with
Thresholds == {<<50, 80>>, <<25, 75>>, <<60, 60>>, <<0, 100>>}

\* the watermarks option of createContext: nothing, or one metric overridden
NoOptions == [metric |-> "none", thresholds |-> <<50, 80>>]
ContextOptions ==
    {NoOptions} \cup {[metric |-> m, thresholds |-> w] : m \in Metrics, w \in Thresholds}

\* the overrides merged over the defaults
MergedWatermarks(opts) ==
    [m \in Metrics |-> IF m = opts.metric THEN opts.thresholds ELSE DefaultWatermarks[m]]

NoContext == [created |-> FALSE, watermarks |-> DefaultWatermarks]

\* the percentages classified: whole ones, one that is no whole number
\* (200/3), and the sentinel
Percentages ==
    {Pct(100, k) : k \in {0, 24, 25, 26, 40, 49, 50, 51, 59, 60, 61, 74, 75, 76,
                          79, 80, 81, 90, 99, 100}}
    \cup {Pct(3, 2), Pct(0, 0)}

\* mutant: the comparisons the other way round at the boundaries
Classify_Boundaries(w, p) ==
    IF ~p.known THEN "medium"
    ELSE IF p.num <= w[1] * p.den THEN "low"
    ELSE IF p.num > w[2] * p.den THEN "high"
    ELSE "medium"

\* the status of percentage p against the thresholds w = [low, high]
Classify(w, p) ==
    IF ~p.known THEN "medium"
    ELSE IF p.num < w[1] * p.den THEN "low"
    ELSE IF p.num >= w[2] * p.den THEN "high"
    ELSE "medium"

\* ------------------------------------------------------------------ Init
\* a concrete tree was built; nothing was called yet
Init ==
    /\ \E n \in 1..MaxNodes : \E p \in ParentMaps(n) :
          /\ size = n
          /\ children = [k \in 1..n |-> ChildrenOf(p, n, k)]
          /\ parent = [k \in 1..n |-> IF k = Root THEN NoNode ELSE p[k]]
          /\ summary \in [1..n -> BOOLEAN]
          /\ \/ missing = "none" /\ broken = {}
             \/ missing = "getRoot" /\ broken = {}
             \/ /\ missing \in NodeAccessors
                /\ broken \in {1..n} \cup {{k} : k \in 1..n}
    /\ given = NoArgument
    /\ passed = NoVisitor
    /\ earlier = <<>>
    /\ coverage = NoCoverage
    /\ made = NoTree
    /\ context = NoContext
    /\ visitor = NoVisitor
    /\ state = NoState
    /\ op = "none"
    /\ self = NoNode
    /\ pc = "new"
    /\ stack = <<>>
    /\ vcalls = <<>>
    /\ dcalls = <<>>
    /\ err = NoError
    /\ ret = NoRet

\* ---------------------------------------------------------- the inputs
FullDelegate == [f \in CB |-> "fn"]

\* a full delegate, except that one slot may hold anything
NearFullDelegates ==
    {d \in [CB -> SlotKinds] : Cardinality({f \in CB : d[f] # "fn"}) <= 1}

\* the partial delegates: every subset of the five callbacks present, and at
\* most one slot that holds a value that is no function or a function that throws
Delegates ==
    {d \in [CB -> SlotKinds] :
        Cardinality({f \in CB : d[f] \in {"nonfn", "throws"}}) <= 1}

\* a full delegate in which at most one callback throws
ThrowingDelegates ==
    {FullDelegate} \cup {[FullDelegate EXCEPT ![f] = "throws"] : f \in CB}

\* The delegates tried on the tree at hand: all of them on the trees of one
\* or two nodes, the nearly full ones on larger trees.  A tree whose
\* subtype lacks an accessor is visited with the full delegate.
DelegateChoices ==
    IF missing # "none" THEN {FullDelegate}
    ELSE IF size <= 2 THEN Delegates
    ELSE NearFullDelegates

\* the members of a composite: full, empty, or throwing in one slot
MemberChoices ==
    IF missing # "none" \/ size > 2 THEN {FullDelegate}
    ELSE {NoDelegate} \cup ThrowingDelegates

\* what a caller can hand to CompositeVisitor: an array of up to MaxMembers
\* plain objects and Visitors, at most one of them with a throwing callback,
\* or one such object bare
Members == {PlainObject(d) : d \in MemberChoices} \cup {Visitor(d) : d \in MemberChoices}

Throwers(a) ==
    {i \in DOMAIN a : \E f \in CB : a[i].delegate[f] = "throws"}

CompositeArgs ==
    {[isArray |-> TRUE, value |-> a] :
        a \in {x \in UNION {[1..k -> Members] : k \in 0..MaxMembers} :
                  Cardinality(Throwers(x)) <= 1}}
    \cup {[isArray |-> FALSE, value |-> m] : m \in Members}

\* A call that never reaches the missing accessor runs exactly as on the same
\* tree with nothing missing, so a broken tree is explored through the calls
\* that can reach what it lacks.
Reaches(called) == missing = "none" \/ missing \in called

\* -------------------------------------------------------------- helpers
TreeVars == <<size, children, summary, parent, missing, broken>>

\* what the caller holds and no call of the library changes
CallerVars == <<given, passed, earlier>>

\* what the summarizers and the context work on; no traversal touches it
SumVars == <<coverage, made, context>>

Top == stack[Len(stack)]

\* mutant: an activation that is suspended on entry and that nothing resumes
Frame_Suspended(n) == [node |-> n, at |-> "suspended", i |-> 0]

\* the activation of n.visit on entry, before line 148
Frame(n) == [node |-> n, at |-> "isSummary", i |-> 0]

SetTop(fr) == [stack EXCEPT ![Len(stack)] = fr]
Pop == SubSeq(stack, 1, Len(stack) - 1)

\* the traces after the call visitor[f](n, state) with outcome r
Logged(r, f, n, st) ==
    /\ vcalls' = IF r.called THEN Append(vcalls, VisitorCall(f, n, st)) ELSE vcalls
    /\ dcalls' = dcalls \o r.events

\* an exception nobody catches: every activation is left, the caller gets e
Throw(e) == pc' = "failed" /\ stack' = <<>> /\ err' = e

\* --------------------------------------------------- building a visitor
\* new Visitor(delegate), lines 26-28
NewVisitor(d) ==
    /\ pc = "new"
    /\ given' = given
    /\ passed' = Visitor(d)
    /\ pc' = "ready"
    /\ UNCHANGED <<TreeVars, SumVars, earlier, visitor, state, op, self, stack, vcalls, dcalls,
                   err, ret>>

\* new CompositeVisitor(visitors), lines 39-49
NewCompositeVisitor(arg) ==
    /\ pc = "new"
    /\ given' = arg
    /\ passed' = CompositeVisitor(arg)
    /\ pc' = "ready"
    /\ UNCHANGED <<TreeVars, SumVars, earlier, visitor, state, op, self, stack, vcalls, dcalls,
                   err, ret>>

\* the caller writes a partial visitor as a plain object (lines 19-23)
PartialVisitor(d) ==
    /\ pc = "new"
    /\ given' = given
    /\ passed' = PlainObject(d)
    /\ pc' = "ready"
    /\ UNCHANGED <<TreeVars, SumVars, earlier, visitor, state, op, self, stack, vcalls, dcalls,
                   err, ret>>

\* ------------------------------------------------------------- Tree.visit
\* Tree.prototype.visit, lines 197-202: wrap, onStart(getRoot()), then enter
\* getRoot().visit
TreeVisit(st) ==
    /\ pc = "ready"
    /\ Reaches({"getRoot", "isSummary", "getChildren"})
    /\ earlier # <<>> => st = earlier[1].state    \* a repeat is the same call again
    /\ op' = "Tree.visit" /\ self' = NoNode /\ state' = st
    /\ visitor' = Wrap(passed)
    /\ ret' = ret
    /\ given' = NoArgument
    /\ IF ~Implemented("getRoot", Root)
       THEN Throw(Unimplemented("getRoot")) /\ UNCHANGED <<vcalls, dcalls>>
       ELSE LET r == Invoke(visitor', "onStart", Root, st)
            IN /\ Logged(r, "onStart", Root, st)
               /\ IF r.err # NoError
                  THEN Throw(r.err)
                  ELSE pc' = "visiting" /\ stack' = <<Frame(Root)>> /\ err' = err
    /\ UNCHANGED <<TreeVars, SumVars, passed, earlier>>

\* Tree.prototype.visit, line 203, once getRoot().visit has returned
TreeVisitEnd ==
    /\ pc = "onEnd"
    /\ LET r == Invoke(visitor, "onEnd", Root, state)
       IN /\ Logged(r, "onEnd", Root, state)
          /\ IF r.err # NoError
             THEN Throw(r.err)
             ELSE pc' = "done" /\ stack' = stack /\ err' = err
    /\ UNCHANGED <<TreeVars, SumVars, CallerVars, visitor, state, op, self, ret>>

\* what the caller has seen of the Tree.visit call that just ended
Seen ==
    [vcalls |-> vcalls, dcalls |-> dcalls, state |-> state, pc |-> pc, err |-> err]

\* Tree.visit has returned or thrown (line 204); the caller keeps what it saw
\* and is free to visit the same tree with the same visitor once more
TreeVisitReturn ==
    /\ op = "Tree.visit"
    /\ pc \in {"done", "failed"}
    /\ earlier' = <<Seen>>
    /\ pc' = "ready"
    /\ op' = "none" /\ state' = NoState /\ visitor' = NoVisitor
    /\ vcalls' = <<>> /\ dcalls' = <<>> /\ err' = NoError
    /\ UNCHANGED <<TreeVars, SumVars, given, passed, self, stack, ret>>

\* ------------------------------------------------------------- Node.visit
\* a caller calls n.visit(visitor, state) itself, line 147: the visitor is
\* used as it is
NodeVisit(n, st) ==
    /\ pc = "ready"
    /\ Reaches({"isSummary", "getChildren"})
    /\ n \in 1..size
    /\ op' = "Node.visit" /\ self' = n /\ state' = st
    /\ visitor' = passed
    /\ pc' = "visiting"
    /\ stack' = <<Frame(n)>>
    /\ given' = NoArgument
    /\ UNCHANGED <<TreeVars, SumVars, passed, earlier, vcalls, dcalls, err, ret>>

\* mutant: the two branches of lines 156-160 exchanged
EnterCallback_Swapped(n) == IF summary[n] THEN "onDetail" ELSE "onSummary"

\* lines 156-160: the callback a node gets on the way in
EnterCallback(n) == IF summary[n] THEN "onSummary" ELSE "onDetail"

\* mutant: line 164's test is lost, every node gets onSummaryEnd
LeaveCallback_Always(n) == "onSummaryEnd"

\* mutant: line 165 calls onSummary a second time instead of onSummaryEnd
LeaveCallback_WrongName(n) == IF summary[n] THEN "onSummary" ELSE "none"

\* lines 164-166: the callback a node gets on the way out, if any
LeaveCallback(n) == IF summary[n] THEN "onSummaryEnd" ELSE "none"

\* mutant: the children are walked from the last to the first
NextChild_Reversed(fr) ==
    children[fr.node][Len(children[fr.node]) + 1 - fr.i]

\* line 151: forEach hands out the elements of the array in index order
NextChild(fr) == children[fr.node][fr.i]

\* lines 156-160 of the innermost activation: onSummary or onDetail
NodeVisitEnter ==
    /\ pc = "visiting"
    /\ Top.at = "isSummary"
    /\ LET n == Top.node
       IN IF ~Implemented("isSummary", n)
          THEN Throw(Unimplemented("isSummary")) /\ UNCHANGED <<vcalls, dcalls>>
          ELSE LET f == EnterCallback(n)
                   r == Invoke(visitor, f, n, state)
               IN /\ Logged(r, f, n, state)
                  /\ IF r.err # NoError
                     THEN Throw(r.err)
                     ELSE /\ pc' = pc /\ err' = err
                          /\ stack' = SetTop([Top EXCEPT !.at = "visitChildren"])
    /\ UNCHANGED <<TreeVars, SumVars, CallerVars, visitor, state, op, self, ret>>

\* line 162 with line 151: visitChildren() asks for the children array
VisitChildren ==
    /\ pc = "visiting"
    /\ Top.at = "visitChildren"
    /\ IF ~Implemented("getChildren", Top.node)
       THEN Throw(Unimplemented("getChildren"))
       ELSE /\ pc' = pc /\ err' = err
            /\ stack' = SetTop([Top EXCEPT !.at = "forEach", !.i = 1])
    /\ UNCHANGED <<TreeVars, SumVars, CallerVars, visitor, state, op, self, vcalls, dcalls, ret>>

\* lines 151-153: the forEach callback calls child.visit for the next child
VisitChild ==
    /\ pc = "visiting"
    /\ Top.at = "forEach"
    /\ Top.i <= Len(children[Top.node])
    /\ stack' = Append(SetTop([Top EXCEPT !.i = Top.i + 1]),
                       Frame(NextChild(Top)))
    /\ UNCHANGED <<TreeVars, SumVars, CallerVars, visitor, state, op, self, pc, vcalls, dcalls, err, ret>>

\* mutant: Tree.visit returns after line 202 and never calls onEnd
AfterVisit_NoOnEnd(rest) == IF rest # <<>> THEN "visiting" ELSE "done"

\* where the caller stands once the outermost Node.visit has returned
AfterVisit(rest) ==
    IF rest # <<>> THEN "visiting"
    ELSE IF op = "Tree.visit" THEN "onEnd" ELSE "done"

\* lines 164-167: after the last child, onSummaryEnd for a summary node, return
NodeVisitLeave ==
    /\ pc = "visiting"
    /\ Top.at = "forEach"
    /\ Top.i > Len(children[Top.node])
    /\ LET n == Top.node
       IN IF ~Implemented("isSummary", n)
          THEN Throw(Unimplemented("isSummary")) /\ UNCHANGED <<vcalls, dcalls>>
          ELSE IF LeaveCallback(n) # "none"
          THEN LET r == Invoke(visitor, LeaveCallback(n), n, state)
               IN /\ Logged(r, LeaveCallback(n), n, state)
                  /\ IF r.err # NoError
                     THEN Throw(r.err)
                     ELSE pc' = AfterVisit(Pop) /\ stack' = Pop /\ err' = err
          ELSE /\ pc' = AfterVisit(Pop) /\ stack' = Pop /\ err' = err
               /\ UNCHANGED <<vcalls, dcalls>>
    /\ UNCHANGED <<TreeVars, SumVars, CallerVars, visitor, state, op, self, ret>>

\* ------------------------------------------------------- other entry points
\* a caller calls visitor[f](n, st) on a Visitor or CompositeVisitor it built
CallVisitor(f, n, st) ==
    /\ pc = "ready"
    /\ Reaches({})
    /\ InstanceofVisitor(passed)
    /\ n \in 1..size
    /\ op' = f /\ self' = n /\ state' = st
    /\ visitor' = passed
    /\ LET r == Invoke(passed, f, n, st)
       IN /\ Logged(r, f, n, st)
          /\ IF r.err # NoError
             THEN Throw(r.err)
             ELSE pc' = "done" /\ stack' = stack /\ err' = err
    /\ given' = NoArgument
    /\ UNCHANGED <<TreeVars, SumVars, passed, earlier, ret>>

\* what the concrete accessor m of node n returns
Concrete(m, n) ==
    CASE m = "getParent" -> parent[n]
      [] m = "getChildren" -> children[n]
      [] m = "isSummary" -> summary[n]
      [] OTHER -> m

\* Node.prototype[m] for an abstract accessor m, lines 73-139: the base method
\* throws, an overriding one returns
CallAccessor(m, n) ==
    /\ pc = "new"
    /\ n \in 1..size
    /\ op' = m /\ self' = n
    /\ IF ~Implemented(m, n)
       THEN Throw(Unimplemented(m)) /\ ret' = ret
       ELSE pc' = "done" /\ stack' = stack /\ err' = err /\ ret' = Concrete(m, n)
    /\ UNCHANGED <<TreeVars, SumVars, CallerVars, visitor, state, vcalls, dcalls>>

\* Tree.prototype.getRoot, lines 187-189
GetRoot ==
    /\ pc = "new"
    /\ op' = "getRoot" /\ self' = NoNode
    /\ IF ~Implemented("getRoot", Root)
       THEN Throw(Unimplemented("getRoot")) /\ ret' = ret
       ELSE pc' = "done" /\ stack' = stack /\ err' = err /\ ret' = Root
    /\ UNCHANGED <<TreeVars, SumVars, CallerVars, visitor, state, vcalls, dcalls>>

\* mutant: line 90 without its negation
IsRootValue_NotNegated(n) == Concrete("getParent", n) # NoNode

\* line 90: !this.getParent(), where null and undefined are falsy
IsRootValue(n) == ~(Concrete("getParent", n) # NoNode)

\* Node.prototype.isRoot, lines 89-91
IsRoot(n) ==
    /\ pc = "new"
    /\ n \in 1..size
    /\ op' = "isRoot" /\ self' = n
    /\ IF ~Implemented("getParent", n)
       THEN Throw(Unimplemented("getParent")) /\ ret' = ret
       ELSE /\ pc' = "done" /\ stack' = stack /\ err' = err
            /\ ret' = IsRootValue(n)
    /\ UNCHANGED <<TreeVars, SumVars, CallerVars, visitor, state, vcalls, dcalls>>

\* ------------------------------------------------------------ the calls
\* summarizers[kind](arg), index.js lines 11-29: a tree, or the failure
CreateSummary(kind, arg) ==
    /\ pc = "new"
    /\ op' = kind
    /\ coverage' = arg
    /\ IF ~ValidCoverage(arg)
       THEN Throw(InvalidCoverageInput) /\ made' = made
       ELSE /\ made' = Summarize(kind, arg.files)
            /\ pc' = "built" /\ stack' = stack /\ err' = err
    /\ UNCHANGED <<TreeVars, CallerVars, context, visitor, state, self, vcalls, dcalls, ret>>

\* node.getCoverageSummary(filesOnly) on a node of the tree that was built
CallGetCoverageSummary(n, filesOnly) ==
    /\ pc = "built"
    /\ n \in made.nodes
    /\ ret' = [node |-> n, filesOnly |-> filesOnly,
               summary |-> GetCoverageSummary(made, n, filesOnly)]
    /\ pc' = "done"
    /\ UNCHANGED <<TreeVars, SumVars, CallerVars, visitor, state, op, self, stack, vcalls,
                   dcalls, err>>

\* Exports.createContext(opts), index.js lines 48-50
CreateContext(opts) ==
    /\ pc = "new"
    /\ op' = "createContext"
    /\ context' = [created |-> TRUE, watermarks |-> MergedWatermarks(opts)]
    /\ pc' = "context"
    /\ UNCHANGED <<TreeVars, CallerVars, coverage, made, visitor, state, self, stack,
                   vcalls, dcalls, err, ret>>

\* the context classifies (metric, pct) for a report
ClassifyForCoverage(m, p) ==
    /\ pc = "context"
    /\ op' = "classify"
    /\ ret' = [metric |-> m, pct |-> p, status |-> Classify(context.watermarks[m], p)]
    /\ pc' = "done"
    /\ UNCHANGED <<TreeVars, SumVars, CallerVars, visitor, state, self, stack, vcalls,
                   dcalls, err>>

\* Exports.getDefaultWatermarks(), index.js lines 58-60
GetDefaultWatermarks ==
    /\ pc = "new"
    /\ op' = "getDefaultWatermarks"
    /\ ret' = DefaultWatermarks
    /\ pc' = "done"
    /\ UNCHANGED <<TreeVars, SumVars, CallerVars, visitor, state, self, stack, vcalls,
                   dcalls, err>>

\* ------------------------------------------------------------------ Next
Next ==
    \/ pc = "new" /\ \E d \in DelegateChoices : NewVisitor(d)
    \/ pc = "new" /\ \E arg \in CompositeArgs : NewCompositeVisitor(arg)
    \/ pc = "new" /\ \E d \in DelegateChoices : PartialVisitor(d)
    \/ pc = "ready" /\ \E st \in States : TreeVisit(st)
    \/ TreeVisitEnd
    \/ pc = "ready" /\ \E n \in 1..size, st \in States : NodeVisit(n, st)
    \/ NodeVisitEnter
    \/ VisitChildren
    \/ VisitChild
    \/ NodeVisitLeave
    \/ pc = "ready" /\ \E f \in CB, n \in 1..size, st \in States : CallVisitor(f, n, st)
    \/ pc = "new" /\ \E m \in NodeAccessors, n \in 1..size : CallAccessor(m, n)
    \/ GetRoot
    \/ pc = "new" /\ \E n \in 1..size : IsRoot(n)

Spec == Init /\ [][Next]_vars

\* A caller that builds one visitor and visits the tree with it again and
\* again: every Tree.visit that has ended is followed by the same call.
RepeatNext ==
    \/ pc = "new" /\ \E d \in DelegateChoices : NewVisitor(d)
    \/ pc = "new" /\ \E arg \in CompositeArgs : NewCompositeVisitor(arg)
    \/ pc = "new" /\ \E d \in DelegateChoices : PartialVisitor(d)
    \/ pc = "ready" /\ \E st \in States : TreeVisit(st)
    \/ NodeVisitEnter
    \/ VisitChildren
    \/ VisitChild
    \/ NodeVisitLeave
    \/ TreeVisitEnd
    \/ TreeVisitReturn

RepeatSpec == Init /\ [][RepeatNext]_vars

\* The steps of a call that is under way.  The traversal is synchronous code
\* (no callback is deferred, nothing yields): once called it runs on until
\* it returns or throws, so a step that can be taken is taken.  LiveSpec is
\* the caller of RepeatSpec with that fairness: it may stop calling at any
\* time, but a call it has made runs on.
Run ==
    \/ NodeVisitEnter
    \/ VisitChildren
    \/ VisitChild
    \/ NodeVisitLeave
    \/ TreeVisitEnd

LiveSpec == Init /\ [][RepeatNext]_vars /\ WF_vars(Run)

\* The summarizers and the context, called on their own: index.js hands them
\* out (lines 11-29, 48-60) and they need no tree of the caller's.
SumInit == Init /\ size = 1 /\ missing = "none" /\ summary[Root]

SumNext ==
    \/ pc = "new" /\ \E kind \in Summarizers, arg \in CoverageArgs : CreateSummary(kind, arg)
    \/ pc = "built" /\ \E n \in made.nodes, filesOnly \in BOOLEAN :
                          CallGetCoverageSummary(n, filesOnly)
    \/ pc = "new" /\ \E opts \in ContextOptions : CreateContext(opts)
    \/ pc = "context" /\ \E m \in Metrics, p \in Percentages : ClassifyForCoverage(m, p)
    \/ pc = "new" /\ GetDefaultWatermarks

SumSpec == SumInit /\ [][SumNext]_vars

\* =============================================================== claims
NodeCallbacks == {"onSummary", "onDetail", "onSummaryEnd"}

Traversing == op \in {"Tree.visit", "Node.visit"}

\* the node the traversal started at
Start == IF op = "Tree.visit" THEN Root ELSE self

\* the traversal returned from the outermost Node.visit without an exception
Complete ==
    \/ op = "Tree.visit" /\ pc \in {"onEnd", "done"}
    \/ op = "Node.visit" /\ pc = "done"

\* the positions of vcalls at which callback cb was invoked (for node n)
IndicesOf(cb) == {i \in DOMAIN vcalls : vcalls[i].cb = cb}
IndicesAt(cb, n) == {i \in IndicesOf(cb) : vcalls[i].node = n}

\* the positions of vcalls that are node callbacks for a node of the set ns
IndicesIn(ns) ==
    {i \in DOMAIN vcalls : vcalls[i].cb \in NodeCallbacks /\ vcalls[i].node \in ns}

\* every node of ns got its way-in callback, every summary node of ns also its
\* onSummaryEnd, all before position i
VisitedBefore(ns, i) ==
    \A d \in ns :
        /\ \E j \in IndicesAt("onSummary", d) \cup IndicesAt("onDetail", d) : j < i
        /\ summary[d] => \E j \in IndicesAt("onSummaryEnd", d) : j < i

\* C1: a Tree.visit whose callbacks do not raise invokes onStart exactly once,
\* with the root, before every other callback, and onEnd exactly once, with
\* the root, after every other callback; Node.visit invokes neither of them,
\* whatever node it starts at.
C1_StartAndEndOnce ==
    /\ (op = "Tree.visit" /\ pc # "failed") =>
          /\ IndicesOf("onStart") = {1}
          /\ vcalls[1] = VisitorCall("onStart", Root, state)
          /\ IndicesOf("onEnd") = IF pc = "done" THEN {Len(vcalls)} ELSE {}
          /\ pc = "done" =>
                /\ Len(vcalls) > 2
                /\ vcalls[Len(vcalls)] = VisitorCall("onEnd", Root, state)
    /\ op = "Node.visit" => IndicesOf("onStart") \cup IndicesOf("onEnd") = {}

C1_Witness ==
    /\ op = "Tree.visit" /\ pc = "done"
    /\ size >= 3
    /\ Len(vcalls) >= 5

\* the onSummary / onSummaryEnd events of seq from position i on match like
\* brackets, `open` being the summary nodes entered and not yet left
RECURSIVE Nested(_, _, _, _)
Nested(seq, i, open, closed) ==
    IF i > Len(seq) THEN closed => open = <<>>
    ELSE CASE seq[i].cb = "onSummary" ->
                Nested(seq, i + 1, Append(open, seq[i].node), closed)
           [] seq[i].cb = "onSummaryEnd" ->
                /\ open # <<>>
                /\ open[Len(open)] = seq[i].node
                /\ Nested(seq, i + 1, SubSeq(open, 1, Len(open) - 1), closed)
           [] OTHER -> Nested(seq, i + 1, open, closed)

\* C2: in a traversal, onSummary(S) comes before every callback for a
\* descendant of S, and onSummaryEnd(S) comes after onSummary(S) and after the
\* last callback of every descendant of S, all of which have been visited by
\* then; the onSummary / onSummaryEnd pairs are properly nested.
C2_SummaryBrackets ==
    Traversing =>
      /\ \A i \in DOMAIN vcalls :
            LET S == vcalls[i].node
                below == IndicesIn(Subtree(S) \ {S})
            IN /\ vcalls[i].cb = "onSummary" => \A j \in below : i < j
               /\ vcalls[i].cb = "onSummaryEnd" =>
                     /\ \A j \in below : j < i
                     /\ \E j \in IndicesAt("onSummary", S) : j < i
                     /\ VisitedBefore(Subtree(S) \ {S}, i)
      /\ Nested(vcalls, 1, <<>>, Complete)

C2_Witness ==
    /\ op = "Tree.visit" /\ pc = "done"
    /\ \E n \in 2..size :
          /\ summary[Root] /\ summary[n] /\ children[n] # <<>>
          /\ IndicesAt("onSummaryEnd", n) # {}

C4_EachNodeOnce ==
    Traversing =>
      \A n \in 1..size :
         LET ns == Cardinality(IndicesAt("onSummary", n))
             ne == Cardinality(IndicesAt("onSummaryEnd", n))
             nd == Cardinality(IndicesAt("onDetail", n))
             in == IF n \in Subtree(Start) THEN 1 ELSE 0
         IN /\ ns <= 1 /\ ne <= 1 /\ nd <= 1
            /\ summary[n] => nd = 0
            /\ ~summary[n] => ns = 0 /\ ne = 0
            /\ Complete =>
                  IF summary[n] THEN ns = in /\ ne = in ELSE nd = in

C4_Witness ==
    /\ Traversing /\ Complete
    /\ \E a, b \in Subtree(Start) : summary[a] /\ ~summary[b]
    /\ \E c \in 1..size : c \notin Subtree(Start)

\* ------------------------------------------------ the expected traversal
\* The events a full visitor is to get from a depth-first walk of the subtree
\* of n: the way-in callback of n, the walks of its children in order, and
\* onSummaryEnd when n is a summary node.
RECURSIVE Walk(_, _), WalkAll(_, _, _)
Walk(n, st) ==
    <<VisitorCall(IF summary[n] THEN "onSummary" ELSE "onDetail", n, st)>>
    \o WalkAll(children[n], 1, st)
    \o (IF summary[n] THEN <<VisitorCall("onSummaryEnd", n, st)>> ELSE <<>>)
WalkAll(kids, i, st) ==
    IF i > Len(kids) THEN <<>> ELSE Walk(kids[i], st) \o WalkAll(kids, i + 1, st)

\* the events a full visitor is to get from the call that was made
FullTrace ==
    CASE op = "Tree.visit" ->
           <<VisitorCall("onStart", Root, state)>> \o Walk(Root, state)
           \o <<VisitorCall("onEnd", Root, state)>>
      [] op = "Node.visit" -> Walk(self, state)
      [] op \in CB -> <<VisitorCall(op, self, state)>>
      [] OTHER -> <<>>

\* the delegates behind visitor object v, in member order
DelegatesOf(v) ==
    IF v.kind = "CompositeVisitor"
    THEN [i \in DOMAIN v.visitors |-> v.visitors[i].delegate]
    ELSE <<v.delegate>>

\* the delegate callbacks one event e is to reach: for each member in order
\* that holds a function in e's slot, that callback with e's node and state
FanOut(ds, e) ==
    SelectSeq([i \in DOMAIN ds |-> DelegateCall(i, e.cb, e.node, e.state)],
              LAMBDA x : ds[x.member][e.cb] \in {"fn", "throws"})

\* the delegate callbacks the events of calls, from position i on, are to reach
RECURSIVE Deliver(_, _, _)
Deliver(ds, calls, i) ==
    IF i > Len(calls) THEN <<>>
    ELSE FanOut(ds, calls[i]) \o Deliver(ds, calls, i + 1)

IsPrefix(a, b) == Len(a) <= Len(b) /\ SubSeq(b, 1, Len(a)) = a

NoThrows(d) == \A f \in CB : d[f] # "throws"

\* C5: Tree.visit with a plain partial object never fails on an absent or
\* non-function slot (with callbacks that do not throw and a sound tree it
\* does not fail at all), and the callbacks the object does have are invoked
\* as for a full visitor: the same events in the same order with the same
\* node and state.
C5_PartialObject ==
    (op = "Tree.visit" /\ passed.kind = "Object") =>
       LET expected == Deliver(<<passed.delegate>>, FullTrace, 1)
       IN /\ err.kind # "TypeError"
          /\ (NoThrows(passed.delegate) /\ missing = "none") => pc # "failed"
          /\ IsPrefix(dcalls, expected)
          /\ pc = "done" => dcalls = expected

C5_Witness ==
    /\ op = "Tree.visit" /\ passed.kind = "Object" /\ pc = "done"
    /\ \E f, g, h \in CB :
          /\ passed.delegate[f] = "absent"
          /\ passed.delegate[g] = "nonfn"
          /\ passed.delegate[h] = "fn"
    /\ dcalls # <<>>
    /\ Len(dcalls) < Len(vcalls)

OnlySummaryEnd == [f \in CB |-> IF f = "onSummaryEnd" THEN "fn" ELSE "absent"]

C7_CompositeFanOut ==
    /\ (op \in CB /\ passed.kind = "CompositeVisitor") =>
          LET ds == DelegatesOf(passed)
              expected ==
                 SelectSeq([i \in DOMAIN ds |-> DelegateCall(i, op, self, state)],
                           LAMBDA x : ds[x.member][op] \in {"fn", "throws"})
          IN /\ IsPrefix(dcalls, expected)
             /\ pc = "done" => dcalls = expected
             /\ (\A i \in DOMAIN ds : ds[i][op] # "throws") => pc = "done"
    /\ (Traversing /\ visitor.kind = "CompositeVisitor" /\ pc # "failed") =>
          dcalls = Deliver(DelegatesOf(visitor), vcalls, 1)

C7_Witness ==
    /\ op = "onDetail" /\ passed.kind = "CompositeVisitor" /\ pc = "done"
    /\ Len(passed.visitors) = 2
    /\ Len(dcalls) = 2
    /\ dcalls[1].member = 1 /\ dcalls[2].member = 2

\* what the slot behind delegate callback event e holds
SlotOf(e) == DelegatesOf(visitor)[e.member][e.cb]

\* C8: a delegate callback that raises is the last callback invoked: the call
\* fails at once with that very error and every activation is left; the
\* callbacks run before it are the ones a normal run has up to that point.
C8_CallbackFailure ==
    /\ \A i \in DOMAIN dcalls :
          SlotOf(dcalls[i]) = "throws" =>
             /\ i = Len(dcalls)
             /\ pc = "failed"
             /\ err = CallbackError(dcalls[i].member, dcalls[i].cb, dcalls[i].node)
             /\ stack = <<>>
    /\ (pc = "failed" /\ err.kind = "callback") =>
          /\ dcalls # <<>>
          /\ dcalls[Len(dcalls)] =
                DelegateCall(err.member, err.method, err.node, state)
          /\ SlotOf(dcalls[Len(dcalls)]) = "throws"
          /\ IsPrefix(dcalls, Deliver(DelegatesOf(visitor), FullTrace, 1))

C8_Witness ==
    /\ op = "Tree.visit" /\ pc = "failed"
    /\ err.kind = "callback" /\ err.method = "onDetail"
    /\ summary[Root]
    /\ Len(children[Root]) >= 2
    /\ err.node = children[Root][1]
    /\ Len(dcalls) >= 3

\* node n (the tree, for getRoot) lacks an override of abstract method m
Lacks(m, n) == missing = m /\ (m = "getRoot" \/ n \in broken)

\* C9: an abstract accessor of Node, and getRoot of Tree, fails with the
\* unimplemented error exactly when the subtype does not override it;
\* Tree.visit without getRoot fails before any callback, and a traversal
\* fails at a node without isSummary before any callback for that node.
C9_Unimplemented ==
    /\ op \in NodeAccessors \cup {"getRoot"} =>
          IF Lacks(op, self)
          THEN pc = "failed" /\ err = Unimplemented(op)
          ELSE pc = "done" /\ err = NoError
    /\ (op = "Tree.visit" /\ Lacks("getRoot", Root)) =>
          /\ pc = "failed" /\ err = Unimplemented("getRoot")
          /\ vcalls = <<>> /\ dcalls = <<>>
    /\ Traversing =>
          /\ \A n \in 1..size : Lacks("isSummary", n) => IndicesIn({n}) = {}
          /\ Complete => \A n \in Subtree(Start) : ~Lacks("isSummary", n)
          /\ err.kind = "unimplemented" =>
                /\ pc = "failed"
                /\ \E n \in Subtree(Start) : Lacks(err.method, n)

C9_Witness ==
    /\ op = "Node.visit" /\ pc = "failed"
    /\ err = Unimplemented("isSummary")
    /\ vcalls # <<>>
    /\ ~Lacks("isSummary", Start)

\* C10: isRoot() returns true exactly when getParent() yields no node, which
\* in a tree is the case for the root alone; it fails with the unimplemented
\* error when getParent is not overridden.
C10_IsRootFromParent ==
    op = "isRoot" =>
       IF Lacks("getParent", self)
       THEN pc = "failed" /\ err = Unimplemented("getParent")
       ELSE /\ pc = "done" /\ err = NoError
            /\ ret = (parent[self] = NoNode)
            /\ ret = (self = Root)

C10_Witness ==
    /\ op = "isRoot" /\ pc = "done"
    /\ self # Root
    /\ ret = FALSE

\* ---------------------------------------------------------------- C11
\* C11: a Tree.visit repeated on the same tree with the same visitor and the
\* same state runs as the one before it ran: at every moment the callbacks
\* invoked so far, on the visitor and on its delegates, are the beginning of
\* what the previous visit invoked, and when the repeat has ended it has
\* invoked exactly the same (callback, node, state) events, in the same order,
\* and ended the same way (returned, or threw the same exception).
C11_RepeatVisit ==
    (earlier # <<>> /\ op = "Tree.visit") =>
        LET before == earlier[1]
        IN /\ state = before.state
           /\ IsPrefix(vcalls, before.vcalls)
           /\ IsPrefix(dcalls, before.dcalls)
           /\ pc \in {"done", "failed"} =>
                  /\ vcalls = before.vcalls
                  /\ dcalls = before.dcalls
                  /\ pc = before.pc
                  /\ err = before.err

\* a second visit of a tree of three nodes has run to its end
C11_Witness ==
    /\ earlier # <<>> /\ op = "Tree.visit" /\ pc = "done"
    /\ size = 3
    /\ Len(dcalls) >= 5

\* ---------------------------------------------------------------- C12
\* a Tree.visit is under way on a tree with every accessor implemented, with
\* a visitor none of whose callbacks throws
Started ==
    /\ op = "Tree.visit" /\ pc = "visiting"
    /\ missing = "none"
    /\ \A i \in DOMAIN DelegatesOf(visitor) : NoThrows(DelegatesOf(visitor)[i])

\* Tree.visit has returned: every node got its way-in callback, and onEnd
\* was invoked after all of them
Finished ==
    /\ op = "Tree.visit" /\ pc = "done" /\ stack = <<>>
    /\ vcalls # <<>> /\ vcalls[Len(vcalls)].cb = "onEnd"
    /\ \A n \in 1..size :
          \E i \in 1..(Len(vcalls) - 1) :
              vcalls[i].node = n /\ vcalls[i].cb \in {"onSummary", "onDetail"}

\* C12: on every finite tree, with a visitor whose callbacks return without
\* raising, a Tree.visit that has started runs to completion: it returns,
\* having visited every node and then invoked onEnd; the traversal never
\* stalls and never ends early.
C12_VisitCompletes == Started ~> Finished

\* a visit of a tree of three nodes has completed
C12_Witness ==
    /\ Finished
    /\ size = 3
    /\ \A i \in DOMAIN DelegatesOf(visitor) : NoThrows(DelegatesOf(visitor)[i])

\* ------------------------------------------------------- C13 to C16
\* a summarizer of the given kind has returned its tree
Built(kind) == op = kind /\ pc \in {"built", "done"}

\* getCoverageSummary has answered for a summary node of that tree
Answered(kind) == op = kind /\ pc = "done" /\ ret.node.kind # "file"

InputPaths == {coverage.files[i].path : i \in DOMAIN coverage.files}

\* the raw record the input holds under a path
RecordAt(path) ==
    coverage.files[CHOOSE i \in DOMAIN coverage.files : coverage.files[i].path = path].record

\* the merge of the input records under a set of paths
RECURSIVE MergeOfPaths(_)
MergeOfPaths(ps) ==
    IF ps = {} THEN EmptySummary
    ELSE LET q == CHOOSE x \in ps : TRUE
         IN Merge(ToSummary(RecordAt(q)), MergeOfPaths(ps \ {q}))

\* the merge of the file coverage of a set of detail nodes of tree t
RECURSIVE MergeOfDetails(_, _)
MergeOfDetails(t, ds) ==
    IF ds = {} THEN EmptySummary
    ELSE LET d == CHOOSE x \in ds : TRUE
         IN Merge(ToSummary(t.file[d]), MergeOfDetails(t, ds \ {d}))

ChildSet(t, n) == {t.children[n][j] : j \in DOMAIN t.children[n]}

\* the detail nodes below n in tree t, at any depth
RECURSIVE DetailsBelow(_, _)
DetailsBelow(t, n) ==
    UNION {IF c.kind = "file" THEN {c} ELSE DetailsBelow(t, c) : c \in ChildSet(t, n)}

\* path p lies in directory dir or in a directory below it
Under(dir, p) == Len(dir) < Len(p) /\ SubSeq(p, 1, Len(dir)) = dir

\* how often node n is listed as a child in tree t
Listings(t, n) ==
    {<<q, j>> \in t.nodes \X (1..MaxFiles) :
        j \in DOMAIN t.children[q] /\ t.children[q][j] = n}

\* C13: in the tree of the nested summarizer, getCoverageSummary() of a
\* summary node S is the merge of the file coverage of every detail node below
\* S at any depth, which are the input files lying under S's directory; and
\* collapsing changed no aggregate: S answers as its directory does in the
\* hierarchy before collapsing, and a directory that was collapsed away is
\* continued by a node further down the chain that holds the same files.
C13_NestedAggregate ==
    /\ Answered("nested") /\ ~ret.filesOnly =>
          LET S == ret.node
              full == HierarchyFrom(RootOnly, coverage.files, 1)
          IN /\ ret.summary = MergeOfDetails(made, DetailsBelow(made, S))
             /\ ret.summary = MergeOfPaths({q \in InputPaths : Under(S.path, q)})
             /\ S \in full.nodes
             /\ ret.summary = MergeOfDetails(full, DetailsBelow(full, S))
    /\ Built("nested") =>
          LET full == HierarchyFrom(RootOnly, coverage.files, 1)
          IN \A n \in full.nodes \ made.nodes :
                \E c \in made.nodes :
                    /\ c.kind = "dir" /\ Under(n.path, c.path)
                    /\ DetailsBelow(made, c) = DetailsBelow(full, n)

\* directory b answered, with a file of its own and one in the directory
\* below, in a tree in which g was collapsed into g/h
C13_Witness ==
    /\ Answered("nested") /\ ~ret.filesOnly
    /\ ret.node = DirNode(<<"b">>)
    /\ FileNode(<<"b", "c.js">>) \in made.nodes
    /\ FileNode(<<"b", "e", "f.js">>) \in made.nodes
    /\ DirNode(<<"g">>) \notin made.nodes
    /\ DirNode(<<"g", "h">>) \in made.nodes

\* C14: the tree of the pkg summarizer has one package node per containing
\* directory of an input file, each a child of the root and of nothing else;
\* a package's children are the detail nodes of the files directly in its
\* directory and nothing more, and its getCoverageSummary() is the merge of
\* those files' records alone, whatever lies in deeper directories.
C14_PackageTree ==
    /\ Built("pkg") =>
          LET packages == {n \in made.nodes : n.kind = "dir"}
          IN /\ {n.path : n \in packages} = {Front(q) : q \in InputPaths}
             /\ ChildSet(made, RootNode) = packages
             /\ \A P \in packages :
                   /\ made.parent[P] = RootNode
                   /\ Cardinality(Listings(made, P)) = 1
                   /\ ChildSet(made, P) =
                         {FileNode(q) : q \in {x \in InputPaths : Front(x) = P.path}}
                   /\ Len(made.children[P]) = Cardinality(ChildSet(made, P))
    /\ Answered("pkg") /\ ret.node.kind = "dir" =>
          ret.summary = MergeOfPaths({q \in InputPaths : Front(q) = ret.node.path})

\* package b answered while a file lies in b/e, a package of its own
C14_Witness ==
    /\ Answered("pkg") /\ ~ret.filesOnly
    /\ ret.node = DirNode(<<"b">>)
    /\ DirNode(<<"b", "e">>) \in made.nodes
    /\ made.parent[DirNode(<<"b", "e">>)] = RootNode

\* C15: the tree of the flat summarizer has one summary node, its root; the
\* root's children are the detail nodes of the input files, one each, in
\* iteration order, each named by its full path.  The mapping with the keys
\* a.js and b/c.js gives exactly two detail children, named a.js and b/c.js.
C15_FlatTree ==
    Built("flat") =>
        /\ {n \in made.nodes : n.kind # "file"} = {RootNode}
        /\ Len(made.children[RootNode]) = Len(coverage.files)
        /\ \A i \in DOMAIN coverage.files :
              LET d == made.children[RootNode][i]
              IN /\ d = FileNode(coverage.files[i].path)
                 /\ made.parent[d] = RootNode
                 /\ made.children[d] = <<>>
                 /\ made.rel[d] = coverage.files[i].path
                 /\ made.file[d] = coverage.files[i].record
        /\ made.nodes = {RootNode} \cup ChildSet(made, RootNode)
        /\ (/\ Len(coverage.files) = 2
            /\ coverage.files[1].path = <<"a.js">>
            /\ coverage.files[2].path = <<"b", "c.js">>) =>
                 /\ Len(made.children[RootNode]) = 2
                 /\ made.rel[made.children[RootNode][1]] = <<"a.js">>
                 /\ made.rel[made.children[RootNode][2]] = <<"b", "c.js">>
                 /\ \A j \in 1..2 : made.children[RootNode][j].kind = "file"

\* the flat tree of the mapping with the keys a.js and b/c.js
C15_Witness ==
    /\ Built("flat")
    /\ Len(coverage.files) = 2
    /\ coverage.files[1].path = <<"a.js">>
    /\ coverage.files[2].path = <<"b", "c.js">>

\* C16: whichever summarizer built it, the tree has one root, a summary node
\* without a parent; every other node has one parent, a summary node of the
\* tree that lists it once among its children, and no other node lists it;
\* and the detail nodes are the input files: one per path, none missing, none
\* twice, each with the record of its path.
C16_TreeShape ==
    \A kind \in Summarizers :
        Built(kind) =>
            /\ {n \in made.nodes : made.parent[n] = NoParent} = {RootNode}
            /\ RootNode.kind # "file"
            /\ Listings(made, RootNode) = {}
            /\ \A n \in made.nodes \ {RootNode} :
                  /\ made.parent[n] \in made.nodes
                  /\ made.parent[n].kind # "file"
                  /\ Cardinality(Listings(made, n)) = 1
                  /\ \A l \in Listings(made, n) : l[1] = made.parent[n]
            /\ {n.path : n \in {x \in made.nodes : x.kind = "file"}} = InputPaths
            /\ Cardinality({x \in made.nodes : x.kind = "file"}) = Len(coverage.files)
            /\ \A x \in made.nodes :
                  x.kind = "file" => made.children[x] = <<>> /\ made.file[x] = RecordAt(x.path)

\* a tree over three files in two directories
C16_Witness ==
    /\ Built("nested")
    /\ Len(coverage.files) = 3
    /\ Cardinality({x \in made.nodes : x.kind = "dir"}) = 2

\* ---------------------------------------------------------------- C17
\* the context has classified a percentage
Classified == op = "classify" /\ pc = "done"

Low == context.watermarks[ret.metric][1]
High == context.watermarks[ret.metric][2]

\* the percentage classified, compared with a whole number of percent
PctBelow(k) == ret.pct.num < k * ret.pct.den
PctIs(k) == ret.pct.num = k * ret.pct.den

CallbacksOf(calls) == [i \in DOMAIN calls |-> <<calls[i].cb, calls[i].node>>]

\* the events of the call that was made, had it been made with state st
TraceWith(st) ==
    CASE op = "Tree.visit" ->
           <<VisitorCall("onStart", Root, st)>> \o Walk(Root, st)
           \o <<VisitorCall("onEnd", Root, st)>>
      [] op = "Node.visit" -> Walk(self, st)
      [] OTHER -> <<VisitorCall(op, self, st)>>

\* C18: every callback invocation of a call, on the visitor and on each
\* member's delegate, for every node, gets the state value the call was given;
\* the visitor object in use stays the one that was handed in (wrapped by
\* Tree.visit if it was no Visitor) with nothing stored on it; and which
\* callbacks are invoked, for which nodes, in which order, is the same
\* whatever the state is and whatever the callbacks return.
C18_StateThreaded ==
    (op \in {"Tree.visit", "Node.visit"} \cup CB) =>
        /\ \A i \in DOMAIN vcalls : vcalls[i].state = state
        /\ \A i \in DOMAIN dcalls : dcalls[i].state = state
        /\ visitor = IF op = "Tree.visit" THEN Wrap(passed) ELSE passed
        /\ DOMAIN visitor = {"kind", "delegate", "visitors"}
        /\ \A st \in States :
              LET with == CallbacksOf(TraceWith(st))
              IN IF pc = "done"
                 THEN CallbacksOf(vcalls) = with
                 ELSE IsPrefix(CallbacksOf(vcalls), with)

\* a traversal of three nodes with a composite of two members has returned,
\* both members having been called for every node
C18_Witness ==
    /\ op = "Tree.visit" /\ pc = "done"
    /\ size = 3
    /\ visitor.kind = "CompositeVisitor" /\ Len(visitor.visitors) = 2
    /\ state = "s2"
    /\ \A n \in 1..size : \A m \in 1..2 :
          \E i \in DOMAIN dcalls : dcalls[i].node = n /\ dcalls[i].member = m

\* ---------------------------------------------------------------- C19
\* the sequence CompositeVisitor was given: an array as it is, a bare visitor
\* as the only element
GivenMembers == IF given.isArray THEN given.value ELSE <<given.value>>

\* how often callback cb for node n was delivered to member i
Deliveries(i, cb, n) ==
    {j \in DOMAIN dcalls :
        dcalls[j].member = i /\ dcalls[j].cb = cb /\ dcalls[j].node = n}

\* C19: a CompositeVisitor built from an array or from one bare visitor has
\* as many members as it was given, in the same order, a Visitor kept as it
\* is and anything else wrapped in a Visitor around it; Tree.visit uses a
\* CompositeVisitor as it is, never fails on a callback a member lacks, and
\* unless a callback throws every event of the traversal reaches every member
\* that has the callback exactly once, and none that has not.
C19_CompositeMembers ==
    /\ (pc = "ready" /\ passed.kind = "CompositeVisitor") =>
          /\ Len(passed.visitors) = Len(GivenMembers)
          /\ \A i \in DOMAIN GivenMembers :
                IF GivenMembers[i].kind = "Visitor"
                THEN passed.visitors[i] = GivenMembers[i]
                ELSE passed.visitors[i] =
                        [kind |-> "Visitor", delegate |-> GivenMembers[i].delegate,
                         visitors |-> <<>>]
    /\ (op = "Tree.visit" /\ passed.kind = "CompositeVisitor") =>
          /\ visitor = passed
          /\ err.kind # "TypeError"
          /\ (missing = "none"
                 /\ \A i \in DOMAIN passed.visitors : NoThrows(passed.visitors[i].delegate))
                => pc # "failed"
          /\ pc # "failed" =>
                \A i \in DOMAIN passed.visitors :
                    /\ \A k \in DOMAIN vcalls :
                          Cardinality(Deliveries(i, vcalls[k].cb, vcalls[k].node)) =
                             IF passed.visitors[i].delegate[vcalls[k].cb] \in {"fn", "throws"}
                             THEN 1 ELSE 0
                    /\ \A j \in DOMAIN dcalls :
                          \E k \in DOMAIN vcalls :
                              vcalls[k].cb = dcalls[j].cb /\ vcalls[k].node = dcalls[j].node

\* a traversal with a composite of a member without any callback and a full
\* one has returned
C19_Witness ==
    /\ op = "Tree.visit" /\ pc = "done"
    /\ passed.kind = "CompositeVisitor" /\ Len(passed.visitors) = 2
    /\ passed.visitors[1].delegate = NoDelegate
    /\ passed.visitors[2].delegate = FullDelegate
    /\ size = 2
    /\ Len(dcalls) = Len(vcalls)

\* ---------------------------------------------------------------- C20
\* what member i got of the delegate callbacks, as a visitor on its own
\* (member 1 of one) would have logged it
MemberView(i) ==
    LET mine == SelectSeq(dcalls, LAMBDA e : e.member = i)
    IN [j \in DOMAIN mine |-> [mine[j] EXCEPT !.member = 1]]

\* what a Tree.visit with a visitor around delegate d alone delivers to d,
\* trace being the events of that traversal
Solo(d, trace) == Deliver(<<d>>, trace, 1)

\* the place in the traversal of the event behind delegate callback e
EventOf(e, trace) ==
    CHOOSE k \in DOMAIN trace : trace[k].cb = e.cb /\ trace[k].node = e.node

\* C20: when no callback raises, a Tree.visit with one visitor delivers to its
\* delegate the events Solo says, and a Tree.visit with a composite delivers
\* to each member exactly what a Tree.visit with that member alone delivers,
\* in the same order; and the composite delivers event by event: once any
\* member got an event, no member gets an earlier one.
C20_CompositeAsSolo ==
    (/\ op = "Tree.visit" /\ missing = "none"
     /\ \A i \in DOMAIN DelegatesOf(visitor) : NoThrows(DelegatesOf(visitor)[i])) =>
        LET trace == FullTrace
        IN /\ visitor.kind = "Visitor" =>
                 /\ IsPrefix(dcalls, Solo(visitor.delegate, trace))
                 /\ pc = "done" => dcalls = Solo(visitor.delegate, trace)
           /\ visitor.kind = "CompositeVisitor" =>
                 /\ \A i \in DOMAIN visitor.visitors :
                       /\ IsPrefix(MemberView(i), Solo(visitor.visitors[i].delegate, trace))
                       /\ pc = "done" =>
                             MemberView(i) = Solo(visitor.visitors[i].delegate, trace)
                 /\ \A k \in 2..Len(dcalls) :
                       EventOf(dcalls[k - 1], trace) <= EventOf(dcalls[k], trace)

\* a traversal of two nodes or more with a composite of two full members has
\* returned
C20_Witness ==
    /\ op = "Tree.visit" /\ pc = "done"
    /\ visitor.kind = "CompositeVisitor" /\ Len(visitor.visitors) = 2
    /\ \A i \in 1..2 : visitor.visitors[i].delegate = FullDelegate
    /\ size >= 2
    /\ Len(dcalls) = 2 * Len(vcalls)

====
